---- MODULE Spec2Model ----
(***************************************************************************)
(* Model of the appstoreconnect_user resource of the Terraform provider    *)
(* for App Store Connect (internal/provider/user_resource.go).             *)
(*                                                                         *)
(* The provider's handlers (ValidateConfig, ModifyPlan, Create, Read,      *)
(* Update, Delete) are translated from the Go source.  The handlers are    *)
(* driven by the declarative engine and talk to the remote API client;     *)
(* both are collaborators outside the repository and are modelled from     *)
(* the contract the specification gives for them.                          *)
(***************************************************************************)
EXTENDS Integers, Sequences, FiniteSets, TLC

(***************************************************************************)
(* Bounds                                                                  *)
(***************************************************************************)
\* number of users the remote service creates in one behaviour
MaxUsers == 2

(***************************************************************************)
(* Framework values: every attribute value is null, unknown or known       *)
(* (types.String, types.Bool, types.Set).                                  *)
(***************************************************************************)
StringNull == [k |-> "null", v |-> ""]
StringUnknown == [k |-> "unknown", v |-> ""]
StringValue(s) == [k |-> "known", v |-> s]
BoolNull == [k |-> "null", v |-> FALSE]
BoolUnknown == [k |-> "unknown", v |-> FALSE]
BoolValue(b) == [k |-> "known", v |-> b]
SetNull == [k |-> "null", v |-> {}]
SetUnknown == [k |-> "unknown", v |-> {}]
SetValue(S) == [k |-> "known", v |-> S]

\* types.SetValueFrom applied to a slice the client returned; the client is
\* taken to return non-nil slices, which make a known (possibly empty) set
SetValueFrom(S) == SetValue(S)

IsNull(x) == x.k = "null"
IsUnknown(x) == x.k = "unknown"

\* ValueString / ValueBool give the zero value for null and unknown
ValueString(x) == IF x.k = "known" THEN x.v ELSE ""
ValueBool(x) == IF x.k = "known" THEN x.v ELSE FALSE

\* Set.ElementsAs into a Go slice: a null set leaves the slice nil
ElementsAs(x) == IF x.k = "known" THEN x.v ELSE {}

(***************************************************************************)
(* Input domains                                                           *)
(***************************************************************************)
\* (first_name, last_name, email) triples the operator writes
Identities ==
    { <<"John", "Smith", "x@y.com">>,
      <<"Jane", "Smith", "x@y.com">>,
      <<"John", "Doe", "x@y.com">>,
      <<"John", "Smith", "X@Y.com">> }

RoleSets == { {"MARKETING"}, {"DEVELOPER"} }

Apps == { "1598625719" }

BoolConfigValues == { BoolNull, BoolUnknown, BoolValue(TRUE), BoolValue(FALSE) }

SetConfigValues == { SetNull, SetUnknown } \cup { SetValue(S) : S \in SUBSET Apps }

(***************************************************************************)
(* Schema: the attributes of the resource and their plan modifiers         *)
(***************************************************************************)
SchemaAttributes ==
    { "id", "first_name", "last_name", "email", "roles",
      "all_apps_visible", "visible_apps", "provisioning_allowed" }

RequiresReplaceAttributes_NoEmail == { "first_name", "last_name" }

\* attributes carrying stringplanmodifier.RequiresReplace()
RequiresReplaceAttributes == { "first_name", "last_name", "email" }

\* attributes declared Computed
ComputedAttributes == { "id" }

\* a configuration block of the resource: id is computed, never configured
UserResourceModel(id, ident, roles, aav, va, prov) ==
    [ id |-> id,
      first_name |-> StringValue(ident[1]),
      last_name |-> StringValue(ident[2]),
      email |-> StringValue(ident[3]),
      roles |-> SetValue(roles),
      all_apps_visible |-> aav,
      visible_apps |-> va,
      provisioning_allowed |-> BoolValue(prov) ]

Configs ==
    { UserResourceModel(StringNull, i, r, a, v, p) :
        i \in Identities, r \in RoleSets, a \in BoolConfigValues,
        v \in SetConfigValues, p \in BOOLEAN }

(***************************************************************************)
(* Diagnostics                                                             *)
(***************************************************************************)
\* resp.Diagnostics.AddAttributeError / AddError / AddWarning
Diagnostic(sev, summary, detail, attr, args) ==
    [ severity |-> sev, summary |-> summary, detail |-> detail,
      attribute |-> attr, args |-> args ]

HasError(ds) == \E i \in 1..Len(ds) : ds[i].severity = "error"

Warnings(ds) == { i \in 1..Len(ds) : ds[i].severity = "warning" }

(***************************************************************************)
(* ValidateConfig                                                          *)
(***************************************************************************)
ValidateConfig_InvertedNull(data) ==
    IF ValueBool(data.all_apps_visible) /\ IsNull(data.visible_apps)
    THEN << Diagnostic("error", "Invalid Configuration",
              "If all_apps_visible is set to true, the list of visible apps must not be provided.",
              "visible_apps", <<>>) >>
    ELSE <<>>

ValidateConfig_IgnoresAllAppsVisible(data) ==
    IF ~IsNull(data.visible_apps)
    THEN << Diagnostic("error", "Invalid Configuration",
              "If all_apps_visible is set to true, the list of visible apps must not be provided.",
              "visible_apps", <<>>) >>
    ELSE <<>>

ValidateConfig_Absent(data) == <<>>

\* If the user can view all apps, the list of apps must not be set
ValidateConfig(data) ==
    IF ValueBool(data.all_apps_visible) /\ ~IsNull(data.visible_apps)
    THEN << Diagnostic("error", "Invalid Configuration",
              "If all_apps_visible is set to true, the list of visible apps must not be provided.",
              "visible_apps", <<>>) >>
    ELSE <<>>

(***************************************************************************)
(* Remote API client (appstore-go): CreateUser, GetUser, ModifyUser,       *)
(* DeleteUser.  A call fails at the transport layer or because the id     *)
(* names no user; a failed call returns the zero User beside the error.   *)
(***************************************************************************)
VARIABLES
    remote,           \* the users held by the remote service
    nextId,           \* the next id the remote service assigns
    config,           \* <<>> or <<c>>: the configuration the operator declared
    state,            \* <<>> or <<s>>: the tracked state of the resource
    plan,             \* <<>> or <<p>>: the planned state of the last plan
    planAction,       \* what the engine made of the last plan
    requiresReplace,  \* RequiresReplace of the last plan response
    modifyPlanReplace,\* the part of it that ModifyPlan appended
    fetched,          \* <<>> or <<u>>: the user ModifyPlan fetched
    diags,            \* the diagnostics of the last handler response
    calls,            \* the remote calls of the current lifecycle run
    last,             \* the handler that ran last
    pc,               \* where the engine is in the lifecycle
    saved             \* <<>> or <<s>>: the tracked state during an import

vars ==
    << remote, nextId, config, state, plan, planAction, requiresReplace,
       modifyPlanReplace, fetched, diags, calls, last, pc, saved >>

User(id, fn, ln, un, roles, aav, apps, prov, acc) ==
    [ ID |-> id, FirstName |-> fn, LastName |-> ln, Username |-> un,
      Roles |-> roles, AllAppsVisible |-> aav, VisibleAppIDs |-> apps,
      ProvisioningAllowed |-> prov, HasAcceptedInvite |-> acc ]

ZeroUser == User("", "", "", "", {}, FALSE, {}, FALSE, FALSE)

NoError == ""

\* the service stores user names in lower case
Canonical(un) == IF un = "X@Y.com" THEN "x@y.com" ELSE un

Exists(id) == \E u \in remote : u.ID = id

Lookup(id) == CHOOSE u \in remote : u.ID = id

Call(op, id, user, err) == [ op |-> op, id |-> id, user |-> user, err |-> err ]

MutatingCalls == { "CreateUser", "ModifyUser", "DeleteUser" }

GetUser(id, fail) ==
    IF fail THEN [ user |-> ZeroUser, err |-> "transport error" ]
    ELSE IF ~Exists(id) THEN [ user |-> ZeroUser, err |-> "not found" ]
    ELSE [ user |-> Lookup(id), err |-> NoError ]

CreateUser(u, fail) ==
    IF fail THEN [ user |-> ZeroUser, err |-> "transport error" ]
    ELSE [ user |-> [ u EXCEPT !.ID = ToString(nextId),
                               !.Username = Canonical(u.Username),
                               !.HasAcceptedInvite = FALSE ],
           err |-> NoError ]

\* the service refuses to modify a user who has not accepted the invite
ModifyUser(id, u, fail) ==
    IF fail THEN [ user |-> ZeroUser, err |-> "transport error" ]
    ELSE IF ~Exists(id) THEN [ user |-> ZeroUser, err |-> "not found" ]
    ELSE IF ~Lookup(id).HasAcceptedInvite
    THEN [ user |-> ZeroUser, err |-> "invite pending" ]
    ELSE [ user |-> [ u EXCEPT !.ID = id,
                               !.Username = Canonical(u.Username),
                               !.HasAcceptedInvite = TRUE ],
           err |-> NoError ]

DeleteUser(id, fail) ==
    IF fail THEN "transport error"
    ELSE IF ~Exists(id) THEN "not found"
    ELSE NoError

\* the remote users after a call that returned res
Stored(id, res) ==
    IF res.err # NoError THEN remote
    ELSE { u \in remote : u.ID # id } \cup { res.user }

(***************************************************************************)
(* The handlers' pure parts                                                *)
(***************************************************************************)
\* the users.User literal that Create and Update send
Payload(data) ==
    User("", ValueString(data.first_name), ValueString(data.last_name),
         ValueString(data.email), ElementsAs(data.roles),
         ValueBool(data.all_apps_visible), ElementsAs(data.visible_apps),
         ValueBool(data.provisioning_allowed), FALSE)

\* the model with every field taken from the user the client returned
FromUser(user) ==
    [ id |-> StringValue(user.ID),
      first_name |-> StringValue(user.FirstName),
      last_name |-> StringValue(user.LastName),
      email |-> StringValue(user.Username),
      roles |-> SetValueFrom(user.Roles),
      all_apps_visible |-> BoolValue(user.AllAppsVisible),
      visible_apps |-> SetValueFrom(user.VisibleAppIDs),
      provisioning_allowed |-> BoolValue(user.ProvisioningAllowed) ]

CreateState_KeepsPlan(data, user) == [ data EXCEPT !.id = StringValue(user.ID) ]

CreateState_PlannedVisibleApps(data, user) ==
    [ FromUser(user) EXCEPT !.visible_apps = data.visible_apps ]

\* Create, after CreateUser succeeded: the data saved into the state
CreateState(data, user) == FromUser(user)

ReadState_KeepsEmail(data, user) == [ FromUser(user) EXCEPT !.email = data.email ]

\* Read: the data built from the GetUser response
ReadState(data, user) == FromUser(user)

\* Update, after ModifyUser succeeded: the data saved into the state
UpdateState(data, user) == FromUser(user)

WarningCannotModify ==
    Diagnostic("warning", "Cannot modify user",
        "Users cannot be modified until they have accepted their email invite to App Store Connect. This resource will be destroyed and recreated.",
        "", <<>>)

FetchError_NoId(id, err) ==
    Diagnostic("error", "Fetch error",
        "Unable to fetch state of user, got error: %s", "", <<err>>)

FetchError(id, err) ==
    Diagnostic("error", "Fetch error",
        "Unable to fetch state of user %s, got error: %s", "", <<id, err>>)

ClientError(detail, err) ==
    Diagnostic("error", "Client Error", detail, "", <<err>>)

NoPlanChange ==
    [ RequiresReplace |-> {}, Diagnostics |-> <<>>, calls |-> <<>>,
      fetched |-> <<>> ]

ModifyPlan_NoReturnOnError(reqState, reqPlan, fail) ==
    IF reqState # <<>> /\ reqPlan # <<>>
    THEN LET id == ValueString(reqState[1].id)
             res == GetUser(id, fail)
         IN  [ RequiresReplace |->
                  IF ~res.user.HasAcceptedInvite THEN SchemaAttributes ELSE {},
               Diagnostics |->
                  (IF res.err # NoError THEN << FetchError(id, res.err) >> ELSE <<>>)
                  \o (IF ~res.user.HasAcceptedInvite
                      THEN << WarningCannotModify >> ELSE <<>>),
               calls |-> << Call("GetUser", id, ZeroUser, res.err) >>,
               fetched |-> IF res.err # NoError THEN <<>> ELSE << res.user >> ]
    ELSE NoPlanChange

ModifyPlan_NeverReplaces(reqState, reqPlan, fail) ==
    IF reqState # <<>> /\ reqPlan # <<>>
    THEN LET id == ValueString(reqState[1].id)
             res == GetUser(id, fail)
         IN  [ RequiresReplace |-> {},
               Diagnostics |->
                  IF res.err # NoError THEN << FetchError(id, res.err) >> ELSE <<>>,
               calls |-> << Call("GetUser", id, ZeroUser, res.err) >>,
               fetched |-> IF res.err # NoError THEN <<>> ELSE << res.user >> ]
    ELSE NoPlanChange

ModifyPlan_OnlyWhenChanged(reqState, reqPlan, fail) ==
    IF reqState # <<>> /\ reqPlan # <<>>
    THEN LET id == ValueString(reqState[1].id)
             res == GetUser(id, fail)
         IN  IF res.err # NoError
             THEN [ RequiresReplace |-> {},
                    Diagnostics |-> << FetchError(id, res.err) >>,
                    calls |-> << Call("GetUser", id, ZeroUser, res.err) >>,
                    fetched |-> <<>> ]
             ELSE IF ~res.user.HasAcceptedInvite /\ reqPlan # reqState
             THEN [ RequiresReplace |-> SchemaAttributes,
                    Diagnostics |-> << WarningCannotModify >>,
                    calls |-> << Call("GetUser", id, ZeroUser, res.err) >>,
                    fetched |-> << res.user >> ]
             ELSE [ RequiresReplace |-> {},
                    Diagnostics |-> <<>>,
                    calls |-> << Call("GetUser", id, ZeroUser, res.err) >>,
                    fetched |-> << res.user >> ]
    ELSE NoPlanChange

ModifyPlan_IgnoresNullPlan(reqState, reqPlan, fail) ==
    IF reqState # <<>>
    THEN LET id == ValueString(reqState[1].id)
             res == GetUser(id, fail)
         IN  IF res.err # NoError
             THEN [ RequiresReplace |-> {},
                    Diagnostics |-> << FetchError(id, res.err) >>,
                    calls |-> << Call("GetUser", id, ZeroUser, res.err) >>,
                    fetched |-> <<>> ]
             ELSE IF ~res.user.HasAcceptedInvite
             THEN [ RequiresReplace |-> SchemaAttributes,
                    Diagnostics |-> << WarningCannotModify >>,
                    calls |-> << Call("GetUser", id, ZeroUser, res.err) >>,
                    fetched |-> << res.user >> ]
             ELSE [ RequiresReplace |-> {},
                    Diagnostics |-> <<>>,
                    calls |-> << Call("GetUser", id, ZeroUser, res.err) >>,
                    fetched |-> << res.user >> ]
    ELSE NoPlanChange

ModifyPlan_SkipsId(reqState, reqPlan, fail) ==
    IF reqState # <<>> /\ reqPlan # <<>>
    THEN LET id == ValueString(reqState[1].id)
             res == GetUser(id, fail)
         IN  IF res.err # NoError
             THEN [ RequiresReplace |-> {},
                    Diagnostics |-> << FetchError(id, res.err) >>,
                    calls |-> << Call("GetUser", id, ZeroUser, res.err) >>,
                    fetched |-> <<>> ]
             ELSE IF ~res.user.HasAcceptedInvite
             THEN [ RequiresReplace |-> SchemaAttributes \ ComputedAttributes,
                    Diagnostics |-> << WarningCannotModify >>,
                    calls |-> << Call("GetUser", id, ZeroUser, res.err) >>,
                    fetched |-> << res.user >> ]
             ELSE [ RequiresReplace |-> {},
                    Diagnostics |-> <<>>,
                    calls |-> << Call("GetUser", id, ZeroUser, res.err) >>,
                    fetched |-> << res.user >> ]
    ELSE NoPlanChange

\* ModifyPlan: what it appends to the plan response, and the call it makes.
\* RequiresReplace is a list in the source, filled in map iteration order;
\* only its members matter to the engine, so it is kept as a set.
ModifyPlan(reqState, reqPlan, fail) ==
    IF reqState # <<>> /\ reqPlan # <<>>
    THEN LET id == ValueString(reqState[1].id)
             res == GetUser(id, fail)
         IN  IF res.err # NoError
             THEN [ RequiresReplace |-> {},
                    Diagnostics |-> << FetchError(id, res.err) >>,
                    calls |-> << Call("GetUser", id, ZeroUser, res.err) >>,
                    fetched |-> <<>> ]
             ELSE IF ~res.user.HasAcceptedInvite
             THEN [ RequiresReplace |-> SchemaAttributes,
                    Diagnostics |-> << WarningCannotModify >>,
                    calls |-> << Call("GetUser", id, ZeroUser, res.err) >>,
                    fetched |-> << res.user >> ]
             ELSE [ RequiresReplace |-> {},
                    Diagnostics |-> <<>>,
                    calls |-> << Call("GetUser", id, ZeroUser, res.err) >>,
                    fetched |-> << res.user >> ]
    ELSE NoPlanChange

(***************************************************************************)
(* Planning, as the plugin framework and the engine do it around the       *)
(* resource's own ModifyPlan.                                              *)
(***************************************************************************)
\* the proposed new state: the configuration, computed attributes that the
\* configuration leaves null taken from the prior state
ProposedNewState(prior, cfg) ==
    IF cfg = <<>> THEN <<>>
    ELSE IF prior = <<>> THEN cfg
    ELSE << [ cfg[1] EXCEPT !.id = prior[1].id ] >>

\* a plan that differs from the prior state has its computed attributes
\* that are null in the configuration marked unknown
MarkComputedNilsAsUnknown(prior, proposed) ==
    IF proposed # <<>> /\ proposed # prior
    THEN << [ proposed[1] EXCEPT !.id = StringUnknown ] >>
    ELSE proposed

\* stringplanmodifier.RequiresReplace on first_name, last_name and email
AttributeRequiresReplace(prior, planned) ==
    IF prior = <<>> \/ planned = <<>> THEN {}
    ELSE { a \in RequiresReplaceAttributes : planned[1][a] # prior[1][a] }

\* the engine replaces when an attribute that requires replacement changes,
\* updates in place when anything else changes
PlanAction(prior, planned, rr) ==
    IF planned = <<>> THEN (IF prior = <<>> THEN "noop" ELSE "delete")
    ELSE IF prior = <<>> THEN "create"
    ELSE IF \E a \in rr : planned[1][a] # prior[1][a] THEN "replace"
    ELSE IF planned = prior THEN "noop"
    ELSE "update"

HasUnknown(cfg) ==
    cfg # <<>> /\ \E a \in SchemaAttributes \ ComputedAttributes : IsUnknown(cfg[1][a])

\* the values an unknown configuration value can resolve to
Resolutions(c) ==
    { [ c EXCEPT !.all_apps_visible = a, !.visible_apps = v ] :
        a \in (IF IsUnknown(c.all_apps_visible)
               THEN BoolConfigValues \ { BoolUnknown } ELSE { c.all_apps_visible }),
        v \in (IF IsUnknown(c.visible_apps)
               THEN SetConfigValues \ { SetUnknown } ELSE { c.visible_apps }) }

(***************************************************************************)
(* The lifecycle: the engine validates the configuration, plans, and       *)
(* applies the plan, one handler at a time.                                *)
(***************************************************************************)
Init ==
    /\ remote = {}
    /\ nextId = 1
    /\ config = <<>>
    /\ state = <<>>
    /\ plan = <<>>
    /\ planAction = "none"
    /\ requiresReplace = {}
    /\ modifyPlanReplace = {}
    /\ fetched = <<>>
    /\ diags = <<>>
    /\ calls = <<>>
    /\ last = "none"
    /\ pc = "idle"
    /\ saved = <<>>

\* a new lifecycle run starts with nothing planned and no call made
NewRun ==
    /\ plan' = <<>>
    /\ planAction' = "none"
    /\ requiresReplace' = {}
    /\ modifyPlanReplace' = {}
    /\ fetched' = <<>>
    /\ calls' = <<>>

\* the operator declares a configuration and the engine has it validated
Validate ==
    /\ pc = "idle"
    /\ \E c \in Configs :
          /\ config' = << c >>
          /\ diags' = ValidateConfig(c)
          /\ pc' = IF HasError(ValidateConfig(c)) THEN "done" ELSE "validated"
    /\ last' = "ValidateConfig"
    /\ NewRun
    /\ UNCHANGED << saved, remote, nextId, state >>

\* the unknown values of the configuration resolve; the engine validates
\* the resolved configuration and plans again; when the resolved
\* configuration is rejected the run ends with the earlier plan unapplied
Resolve ==
    /\ pc = "planned"
    /\ HasUnknown(config)
    /\ \E c \in Resolutions(config[1]) :
          /\ config' = << c >>
          /\ diags' = ValidateConfig(c)
          /\ IF HasError(ValidateConfig(c))
             THEN /\ pc' = "done"
                  /\ UNCHANGED << plan, planAction, requiresReplace,
                                  modifyPlanReplace, fetched, calls >>
             ELSE /\ pc' = "validated"
                  /\ NewRun
    /\ last' = "ValidateConfig"
    /\ UNCHANGED << saved, remote, nextId, state >>

\* the operator removes the resource from the configuration
RemoveConfig ==
    /\ pc = "idle"
    /\ state # <<>>
    /\ config' = <<>>
    /\ diags' = <<>>
    /\ pc' = "validated"
    /\ last' = "none"
    /\ NewRun
    /\ UNCHANGED << saved, remote, nextId, state >>

\* PlanResourceChange: the framework's plan, the attribute plan modifiers,
\* the resource's ModifyPlan, and the engine's choice of action
PlanChange ==
    /\ pc = "validated"
    /\ \E fail \in BOOLEAN :
          LET planned == MarkComputedNilsAsUnknown(state, ProposedNewState(state, config))
              mp == ModifyPlan(state, planned, fail)
              rr == AttributeRequiresReplace(state, planned) \cup mp.RequiresReplace
              act == PlanAction(state, planned, rr)
          IN  /\ plan' = planned
              /\ requiresReplace' = rr
              /\ modifyPlanReplace' = mp.RequiresReplace
              /\ fetched' = mp.fetched
              /\ diags' = mp.Diagnostics
              /\ calls' = calls \o mp.calls
              /\ planAction' = IF HasError(mp.Diagnostics) THEN "none" ELSE act
              /\ pc' = IF HasError(mp.Diagnostics) \/ act = "noop"
                       THEN "done" ELSE "planned"
    /\ last' = "ModifyPlan"
    /\ UNCHANGED << saved, remote, nextId, config, state >>

Create_KeepsPartialState ==
    /\ IF pc = "replacing" THEN TRUE
       ELSE pc = "planned" /\ planAction = "create" /\ ~HasUnknown(config)
    /\ nextId <= MaxUsers
    /\ \E fail \in BOOLEAN :
          LET data == plan[1]
              res == CreateUser(Payload(data), fail)
          IN  /\ calls' = Append(calls, Call("CreateUser", "", Payload(data), res.err))
              /\ state' = << CreateState(data, res.user) >>
              /\ IF res.err # NoError
                 THEN /\ diags' = << ClientError("Unable to create user, got error: %s", res.err) >>
                      /\ UNCHANGED << remote, nextId >>
                 ELSE /\ diags' = <<>>
                      /\ remote' = remote \cup { res.user }
                      /\ nextId' = nextId + 1
    /\ last' = "Create"
    /\ pc' = "done"
    /\ UNCHANGED << saved, config, plan, planAction, requiresReplace, modifyPlanReplace, fetched >>

Create_RetriesOnce ==
    /\ IF pc = "replacing" THEN TRUE
       ELSE pc = "planned" /\ planAction = "create" /\ ~HasUnknown(config)
    /\ nextId <= MaxUsers
    /\ \E fail \in BOOLEAN, failAgain \in BOOLEAN :
          LET data == plan[1]
              first == CreateUser(Payload(data), fail)
              res == IF first.err # NoError
                     THEN CreateUser(Payload(data), failAgain) ELSE first
              made == IF first.err # NoError
                      THEN << Call("CreateUser", "", Payload(data), first.err),
                              Call("CreateUser", "", Payload(data), res.err) >>
                      ELSE << Call("CreateUser", "", Payload(data), res.err) >>
          IN  /\ calls' = calls \o made
              /\ IF res.err # NoError
                 THEN /\ diags' = << ClientError("Unable to create user, got error: %s", res.err) >>
                      /\ UNCHANGED << state, remote, nextId >>
                 ELSE /\ diags' = <<>>
                      /\ state' = << CreateState(data, res.user) >>
                      /\ remote' = remote \cup { res.user }
                      /\ nextId' = nextId + 1
    /\ last' = "Create"
    /\ pc' = "done"
    /\ UNCHANGED << saved, config, plan, planAction, requiresReplace, modifyPlanReplace, fetched >>

Create ==
    /\ IF pc = "replacing" THEN TRUE
       ELSE pc = "planned" /\ planAction = "create" /\ ~HasUnknown(config)
    /\ nextId <= MaxUsers
    /\ \E fail \in BOOLEAN :
          LET data == plan[1]
              res == CreateUser(Payload(data), fail)
          IN  /\ calls' = Append(calls, Call("CreateUser", "", Payload(data), res.err))
              /\ IF res.err # NoError
                 THEN /\ diags' = << ClientError("Unable to create user, got error: %s", res.err) >>
                      /\ UNCHANGED << state, remote, nextId >>
                 ELSE /\ diags' = <<>>
                      /\ state' = << CreateState(data, res.user) >>
                      /\ remote' = remote \cup { res.user }
                      /\ nextId' = nextId + 1
    /\ last' = "Create"
    /\ pc' = "done"
    /\ UNCHANGED << saved, config, plan, planAction, requiresReplace, modifyPlanReplace, fetched >>

\* the engine reads a tracked resource when idle, right after an import,
\* and right after a Create or a Read that succeeded
ReadIssued ==
    /\ state # <<>>
    /\ \/ pc \in { "idle", "imported" }
       \/ pc = "done" /\ last \in { "Create", "Read" } /\ ~HasError(diags)

Read_SavesBeforeErrorCheck ==
    /\ ReadIssued
    /\ \E fail \in BOOLEAN :
          LET data == state[1]
              id == ValueString(data.id)
              res == GetUser(id, fail)
          IN  /\ calls' = << Call("GetUser", id, ZeroUser, res.err) >>
              /\ state' = << ReadState(data, res.user) >>
              /\ diags' = IF res.err # NoError
                          THEN << ClientError("Unable to read user, got error: %s", res.err) >>
                          ELSE <<>>
    /\ last' = "Read"
    /\ pc' = "done"
    /\ UNCHANGED << saved, remote, nextId, config, plan, planAction, requiresReplace,
                    modifyPlanReplace, fetched >>

Read_RemovesOnError ==
    /\ ReadIssued
    /\ \E fail \in BOOLEAN :
          LET data == state[1]
              id == ValueString(data.id)
              res == GetUser(id, fail)
          IN  /\ calls' = << Call("GetUser", id, ZeroUser, res.err) >>
              /\ IF res.err # NoError
                 THEN /\ diags' = << ClientError("Unable to read user, got error: %s", res.err) >>
                      /\ state' = <<>>
                 ELSE /\ diags' = <<>>
                      /\ state' = << ReadState(data, res.user) >>
    /\ last' = "Read"
    /\ pc' = "done"
    /\ UNCHANGED << saved, remote, nextId, config, plan, planAction, requiresReplace,
                    modifyPlanReplace, fetched >>

\* Read builds the data from the response before it looks at the error,
\* and saves it only when there is none
Read ==
    /\ ReadIssued
    /\ \E fail \in BOOLEAN :
          LET data == state[1]
              id == ValueString(data.id)
              res == GetUser(id, fail)
          IN  /\ calls' = << Call("GetUser", id, ZeroUser, res.err) >>
              /\ IF res.err # NoError
                 THEN /\ diags' = << ClientError("Unable to read user, got error: %s", res.err) >>
                      /\ UNCHANGED state
                 ELSE /\ diags' = <<>>
                      /\ state' = << ReadState(data, res.user) >>
    /\ last' = "Read"
    /\ pc' = "done"
    /\ UNCHANGED << saved, remote, nextId, config, plan, planAction, requiresReplace,
                    modifyPlanReplace, fetched >>

\* Update takes its data, the id included, from the plan
Update ==
    /\ pc = "planned"
    /\ planAction = "update"
    /\ ~HasUnknown(config)
    /\ \E fail \in BOOLEAN :
          LET data == plan[1]
              id == ValueString(data.id)
              res == ModifyUser(id, Payload(data), fail)
          IN  /\ calls' = Append(calls, Call("ModifyUser", id, Payload(data), res.err))
              /\ IF res.err # NoError
                 THEN /\ diags' = << ClientError("Unable to modify user, got error: %s", res.err) >>
                      /\ UNCHANGED << state, remote >>
                 ELSE /\ diags' = <<>>
                      /\ state' = << UpdateState(data, res.user) >>
                      /\ remote' = Stored(id, res)
    /\ last' = "Update"
    /\ pc' = "done"
    /\ UNCHANGED << saved, nextId, config, plan, planAction, requiresReplace,
                    modifyPlanReplace, fetched >>

Delete_SwallowsError ==
    /\ pc = "planned"
    /\ planAction \in { "delete", "replace" }
    /\ ~HasUnknown(config)
    /\ \E fail \in BOOLEAN :
          LET data == state[1]
              id == ValueString(data.id)
              err == DeleteUser(id, fail)
          IN  /\ calls' = Append(calls, Call("DeleteUser", id, ZeroUser, err))
              /\ diags' = <<>>
              /\ state' = <<>>
              /\ remote' = IF err # NoError THEN remote ELSE { u \in remote : u.ID # id }
              /\ pc' = IF planAction = "replace" THEN "replacing" ELSE "done"
    /\ last' = "Delete"
    /\ UNCHANGED << saved, nextId, config, plan, planAction, requiresReplace,
                    modifyPlanReplace, fetched >>

\* Delete; when it reports no error the framework removes the state
Delete ==
    /\ pc = "planned"
    /\ planAction \in { "delete", "replace" }
    /\ ~HasUnknown(config)
    /\ \E fail \in BOOLEAN :
          LET data == state[1]
              id == ValueString(data.id)
              err == DeleteUser(id, fail)
          IN  /\ calls' = Append(calls, Call("DeleteUser", id, ZeroUser, err))
              /\ IF err # NoError
                 THEN /\ diags' = << ClientError("Unable to delete user, got error: %s", err) >>
                      /\ pc' = "done"
                      /\ UNCHANGED << state, remote >>
                 ELSE /\ diags' = <<>>
                      /\ state' = <<>>
                      /\ remote' = { u \in remote : u.ID # id }
                      /\ pc' = IF planAction = "replace" THEN "replacing" ELSE "done"
    /\ last' = "Delete"
    /\ UNCHANGED << saved, nextId, config, plan, planAction, requiresReplace,
                    modifyPlanReplace, fetched >>

\* a user accepts the e-mail invite, at some point between two remote calls
AcceptInvite ==
    /\ pc \in { "idle", "planned", "replacing" }
    /\ \E u \in remote :
          /\ ~u.HasAcceptedInvite
          /\ remote' = (remote \ { u }) \cup { [ u EXCEPT !.HasAcceptedInvite = TRUE ] }
    /\ UNCHANGED << saved, nextId, config, state, plan, planAction, requiresReplace,
                    modifyPlanReplace, fetched, diags, calls, last, pc >>

\* the user is removed at the remote service behind the provider's back
RemoveOutOfBand ==
    /\ pc \in { "idle", "planned" }
    /\ \E u \in remote : remote' = remote \ { u }
    /\ UNCHANGED << saved, nextId, config, state, plan, planAction, requiresReplace,
                    modifyPlanReplace, fetched, diags, calls, last, pc >>

\* the state ImportStatePassthroughID writes: the id and nothing else
ImportedState(id) ==
    [ id |-> StringValue(id),
      first_name |-> StringNull,
      last_name |-> StringNull,
      email |-> StringNull,
      roles |-> SetNull,
      all_apps_visible |-> BoolNull,
      visible_apps |-> SetNull,
      provisioning_allowed |-> BoolNull ]

\* ImportState: the operator imports the tracked user by its id into a
\* fresh state, as the acceptance test does after the create step, and the
\* engine reads the resource next; saved holds the tracked state meanwhile
ImportState ==
    /\ pc = "idle"
    /\ state # <<>>
    /\ saved' = state
    /\ state' = << ImportedState(ValueString(state[1].id)) >>
    /\ diags' = <<>>
    /\ last' = "ImportState"
    /\ pc' = "imported"
    /\ UNCHANGED << remote, nextId, config, plan, planAction, requiresReplace,
                    modifyPlanReplace, fetched, calls >>

\* an import whose Read failed has only the id
ImportPending == state # <<>> /\ IsNull(state[1].first_name)

\* the run ends: its diagnostics go to the operator and the engine is idle;
\* an import whose Read failed is dropped and the tracked state stays
Finish ==
    /\ pc = "done"
    /\ config' = <<>>
    /\ diags' = <<>>
    /\ last' = "none"
    /\ pc' = "idle"
    /\ state' = IF ImportPending THEN saved ELSE state
    /\ saved' = <<>>
    /\ NewRun
    /\ UNCHANGED << remote, nextId >>

Next ==
    \/ Finish
    \/ Validate
    \/ Resolve
    \/ RemoveConfig
    \/ PlanChange
    \/ Create
    \/ Read
    \/ Update
    \/ Delete
    \/ ImportState
    \/ AcceptInvite
    \/ RemoveOutOfBand

Spec == Init /\ [][Next]_vars

(***************************************************************************)
(* Properties                                                              *)
(***************************************************************************)
Validated == last = "ValidateConfig" /\ config # <<>>

\* C1: whenever the validated configuration has all_apps_visible true and a
\* non-empty visible_apps, ValidateConfig reports an error on the
\* visible_apps attribute, whatever the other fields are.
C1_ConflictRejected ==
    ( /\ Validated
      /\ config[1].all_apps_visible = BoolValue(TRUE)
      /\ config[1].visible_apps.k = "known"
      /\ config[1].visible_apps.v # {} )
    => /\ \E i \in 1..Len(diags) :
             diags[i].severity = "error" /\ diags[i].attribute = "visible_apps"
       /\ pc = "done"

C1_Witness ==
    /\ Validated
    /\ config[1].all_apps_visible = BoolValue(TRUE)
    /\ config[1].visible_apps = SetValue({ "1598625719" })
    /\ config[1].roles = SetValue({ "DEVELOPER" })
    /\ HasError(diags)

\* C2 as stated: whenever all_apps_visible is false or unset, or visible_apps
\* is empty (unset or an explicitly declared empty set), ValidateConfig
\* reports nothing.
C2_Original ==
    ( /\ Validated
      /\ \/ config[1].all_apps_visible \in { BoolValue(FALSE), BoolNull }
         \/ config[1].visible_apps \in { SetNull, SetValue({}) } )
    => diags = <<>>

\* C2 as amended: whenever all_apps_visible is false or unset (or not yet
\* known), or visible_apps is unset, ValidateConfig reports nothing and the
\* lifecycle goes on to planning; with all_apps_visible true an explicitly
\* declared empty visible_apps is rejected like a non-empty one.
C2_UnsetAccepted ==
    /\ ( /\ Validated
         /\ \/ config[1].all_apps_visible # BoolValue(TRUE)
            \/ config[1].visible_apps = SetNull )
       => diags = <<>> /\ pc = "validated"
    /\ ( /\ Validated
         /\ config[1].all_apps_visible = BoolValue(TRUE)
         /\ config[1].visible_apps = SetValue({}) )
       => HasError(diags) /\ pc = "done"

C2_Witness ==
    /\ Validated
    /\ config[1].all_apps_visible = BoolValue(FALSE)
    /\ config[1].visible_apps = SetValue({})
    /\ diags = <<>>
    /\ pc = "validated"

Planned == last = "ModifyPlan"

ObservedPending == fetched # <<>> /\ ~fetched[1].HasAcceptedInvite

ObservedAccepted == fetched # <<>> /\ fetched[1].HasAcceptedInvite

\* C3: when ModifyPlan ran for an existing resource and fetched a user who
\* has not accepted the invite, every schema attribute is in the
\* requires-replacement set, there is exactly one warning and no error.
C3_PendingReplacesAll ==
    (Planned /\ ObservedPending)
    => /\ modifyPlanReplace = { "id", "first_name", "last_name", "email", "roles",
                                "all_apps_visible", "visible_apps",
                                "provisioning_allowed" }
       /\ modifyPlanReplace \subseteq requiresReplace
       /\ Cardinality(Warnings(diags)) = 1
       /\ \A i \in Warnings(diags) : diags[i].summary = "Cannot modify user"
       /\ ~HasError(diags)

C3_Witness ==
    /\ Planned
    /\ ObservedPending
    /\ state # <<>>
    /\ plan # <<>>
    /\ Len(diags) = 1
    /\ planAction = "replace"

\* C4: ModifyUser is called only in a run whose plan was an in-place update
\* of a user seen to have accepted the invite; in a run whose plan saw a
\* pending invite the apply calls DeleteUser and CreateUser, never ModifyUser.
C4_NoUpdateWhenPending ==
    /\ \A i \in 1..Len(calls) :
          calls[i].op = "ModifyUser" => planAction = "update" /\ ObservedAccepted
    /\ (ObservedPending /\ pc \in { "planned", "replacing" }) => planAction = "replace"
    /\ (ObservedPending /\ last = "Create") =>
          /\ Len(calls) = 3
          /\ calls[2].op = "DeleteUser"
          /\ calls[3].op = "CreateUser"

C4_Witness ==
    /\ ObservedPending
    /\ last = "Create"
    /\ pc = "done"
    /\ diags = <<>>
    /\ state # <<>>
    /\ \A i \in 1..Len(calls) : calls[i].op # "ModifyUser"

Differs(a) == config[1][a] # state[1][a]

\* C5: when ModifyPlan fetched a user who has accepted the invite, the plan
\* is a replacement exactly when first_name, last_name or email differs
\* between the prior state and the configuration; a difference in the other
\* attributes alone is an in-place update; and there is no warning.
C5_ReplaceIffIdentityChanged ==
    (Planned /\ ObservedAccepted /\ config # <<>>)
    => /\ planAction = "replace"
            <=> \E a \in { "first_name", "last_name", "email" } : Differs(a)
       /\ ( /\ \A a \in { "first_name", "last_name", "email" } : ~Differs(a)
            /\ \E a \in { "roles", "all_apps_visible", "visible_apps",
                          "provisioning_allowed" } : Differs(a) )
          => planAction = "update"
       /\ Warnings(diags) = {}

C5_Witness ==
    /\ Planned
    /\ ObservedAccepted
    /\ config # <<>>
    /\ Differs("last_name")
    /\ ~Differs("roles")
    /\ planAction = "replace"

C5_WitnessUpdate ==
    /\ Planned
    /\ ObservedAccepted
    /\ config # <<>>
    /\ Differs("provisioning_allowed")
    /\ ~Differs("roles")
    /\ planAction = "update"

FetchFailed ==
    /\ Planned
    /\ calls # <<>>
    /\ calls[Len(calls)].op = "GetUser"
    /\ calls[Len(calls)].err # NoError

\* C6: when GetUser fails inside ModifyPlan, the response carries the fetch
\* error, ModifyPlan has added nothing to the requires-replacement set and
\* no warning, and the run ends without any mutating remote call.
C6_FetchErrorAborts ==
    FetchFailed
    => /\ Len(diags) = 1
       /\ diags[1].severity = "error"
       /\ diags[1].summary = "Fetch error"
       /\ modifyPlanReplace = {}
       /\ Warnings(diags) = {}
       /\ planAction = "none"
       /\ pc = "done"
       /\ \A i \in 1..Len(calls) : calls[i].op \notin MutatingCalls

C6_Witness ==
    /\ FetchFailed
    /\ HasError(diags)
    /\ state # <<>>
    /\ config # <<>>
    /\ Differs("roles")

\* C7: after a Create whose CreateUser succeeded, the tracked state has the
\* non-empty id the service assigned and, field by field, the values of the
\* user the service returned, which need not be the planned ones.
C7_CreateStoresServerValues ==
    (last = "Create" /\ ~HasError(diags))
    => /\ state # <<>>
       /\ state[1].id.k = "known"
       /\ state[1].id.v # ""
       /\ \E u \in remote :
             /\ state[1].id = [ k |-> "known", v |-> u.ID ]
             /\ state[1].first_name = [ k |-> "known", v |-> u.FirstName ]
             /\ state[1].last_name = [ k |-> "known", v |-> u.LastName ]
             /\ state[1].email = [ k |-> "known", v |-> u.Username ]
             /\ state[1].roles = [ k |-> "known", v |-> u.Roles ]
             /\ state[1].all_apps_visible = [ k |-> "known", v |-> u.AllAppsVisible ]
             /\ state[1].visible_apps = [ k |-> "known", v |-> u.VisibleAppIDs ]
             /\ state[1].provisioning_allowed
                   = [ k |-> "known", v |-> u.ProvisioningAllowed ]

C7_Witness ==
    /\ last = "Create"
    /\ ~HasError(diags)
    /\ state # <<>>
    /\ plan[1].email = StringValue("X@Y.com")
    /\ state[1].email = StringValue("x@y.com")
    /\ state[1].roles = SetValue({ "MARKETING" })

CreateStep == last' = "Create" /\ pc \in { "planned", "replacing" }

UpdateStep == last' = "Update" /\ pc = "planned"

ReadStep == last' = "Read" /\ pc \in { "idle", "imported", "done" }

\* C8: a Create whose remote call fails leaves the resource untracked, an
\* Update whose remote call fails leaves the tracked state as it was, and
\* Read is only ever issued for a tracked resource with a stored id.
C8_FailureWritesNothing ==
    [][ /\ (CreateStep /\ HasError(diags')) => (state = <<>> /\ state' = <<>>)
        /\ (UpdateStep /\ HasError(diags')) => (state' = state /\ state' # <<>>)
        /\ ReadStep => (state # <<>> /\ ValueString(state[1].id) # "")
      ]_vars

C8_Witness ==
    /\ last = "Create"
    /\ HasError(diags)
    /\ calls[Len(calls)].op = "CreateUser"
    /\ state = <<>>
    /\ pc = "done"

C8_WitnessUpdate ==
    /\ last = "Update"
    /\ HasError(diags)
    /\ calls[Len(calls)].op = "ModifyUser"
    /\ state # <<>>

C10_ReadFailureKeepsState ==
    [][ (ReadStep /\ calls'[1].err # NoError)
        => /\ state' = state
           /\ state' # <<>>
           /\ Len(diags') = 1
           /\ diags'[1].severity = "error"
           /\ diags'[1].summary = "Client Error"
      ]_vars

C10_Witness ==
    /\ last = "Read"
    /\ HasError(diags)
    /\ calls[1].err = "transport error"
    /\ state # <<>>
    /\ Exists(ValueString(state[1].id))

C10_WitnessNotFound ==
    /\ last = "Read"
    /\ HasError(diags)
    /\ calls[1].err = "not found"
    /\ state # <<>>

DeleteStep == last' = "Delete" /\ pc = "planned"

\* C11: when DeleteUser fails, Delete reports a client error and the
\* resource stays tracked with the state it had, so that Delete can be tried
\* again with the same id; the tracked state goes away only in a Delete
\* whose DeleteUser call, keyed by the tracked id, succeeded.
C11_DeleteFailureKeepsState ==
    [][ /\ (DeleteStep /\ calls'[Len(calls')].err # NoError) =>
               /\ state' = state
               /\ state' # <<>>
               /\ diags' = << ClientError("Unable to delete user, got error: %s",
                                          calls'[Len(calls')].err) >>
               /\ pc' = "done"
        /\ (state # <<>> /\ state' = <<>>) =>
               /\ DeleteStep
               /\ calls'[Len(calls')] =
                      Call("DeleteUser", ValueString(state[1].id), ZeroUser, NoError) ]_vars

\* a Delete has failed and the resource is still tracked
C11_Witness ==
    /\ last = "Delete"
    /\ HasError(diags)
    /\ state # <<>>
    /\ calls[Len(calls)].op = "DeleteUser"
    /\ calls[Len(calls)].id = ValueString(state[1].id)

\* C12: when Create has succeeded and Read runs right after it, with the id
\* Create returned and no change of the remote user in between, a Read that
\* succeeds leaves a tracked state equal, field by field, to the state
\* Create returned.
C12_CreateThenRead ==
    [][ ( /\ pc = "done" /\ last = "Create" /\ ~HasError(diags)
          /\ last' = "Read" /\ ~HasError(diags') ) =>
            /\ calls' = << Call("GetUser", ValueString(state[1].id), ZeroUser, NoError) >>
            /\ \A a \in SchemaAttributes : state'[1][a] = state[1][a] ]_vars

\* a Read has succeeded in the run of a Create whose configuration left
\* visible_apps unset and spelled the e-mail address differently from the
\* remote service
C12_Witness ==
    /\ last = "Read"
    /\ ~HasError(diags)
    /\ saved = <<>>
    /\ planAction \in { "create", "replace" }
    /\ plan # <<>> /\ state # <<>>
    /\ IsNull(plan[1].visible_apps)
    /\ plan[1].email = StringValue("X@Y.com")
    /\ state[1].email = StringValue("x@y.com")

\* C13: Read is idempotent: when a Read has succeeded and a second Read
\* runs for the same id with no change of the remote user in between, the
\* tracked state after the second Read is the tracked state after the
\* first, whether the second GetUser call succeeds or fails.
C13_ReadIdempotent ==
    [][ ( /\ pc = "done" /\ last = "Read" /\ ~HasError(diags)
          /\ last' = "Read" ) =>
            /\ calls'[1].id = calls[1].id
            /\ state' = state ]_vars

\* in the run of an import the first Read has filled the state and a second
\* Read has run
C13_Witness ==
    /\ last = "Read"
    /\ saved # <<>>
    /\ ~ImportPending
    /\ HasError(diags)

PayloadCalls == { "CreateUser", "ModifyUser" }

C14_WitnessPayload ==
    /\ last = "Create"
    /\ calls[Len(calls)].op = "CreateUser"
    /\ calls[Len(calls)].user.AllAppsVisible
    /\ calls[Len(calls)].user.VisibleAppIDs = {}

KeyedCalls == { "GetUser", "ModifyUser", "DeleteUser" }

\* the handler that ran last has made a call keyed by an id, and the
\* resource is still tracked
KeyedCallMade(handlers) ==
    /\ state # <<>>
    /\ last \in handlers
    /\ calls # <<>>
    /\ calls[Len(calls)].op \in KeyedCalls

\* C15: for a tracked resource, the GetUser, ModifyUser and DeleteUser call
\* that Read, ModifyPlan, Update and Delete make is keyed by the tracked
\* id, the one the remote service assigned at creation or the one given at
\* import; Update too calls ModifyUser with that id.
C15_CallsKeyedByTrackedId ==
    KeyedCallMade({ "Read", "ModifyPlan", "Update", "Delete" }) =>
        calls[Len(calls)].id = ValueString(state[1].id)

\* the part of C15 that holds: Read, ModifyPlan and Delete, which take the
\* id from the state, key their call by the tracked id
C15_StateReadersKeyedByTrackedId ==
    KeyedCallMade({ "Read", "ModifyPlan", "Delete" }) =>
        calls[Len(calls)].id = ValueString(state[1].id)

\* C16: import followed by Read reconstructs the full state: ImportState
\* sets the id and leaves every other attribute null, and the Read that
\* follows fills every attribute from the remote user, so that the tracked
\* state equals the state the resource had from Create for that user.
C16_ImportThenRead ==
    /\ last = "ImportState" =>
          /\ state[1].id = saved[1].id
          /\ \A a \in SchemaAttributes \ { "id" } : IsNull(state[1][a])
    /\ (saved # <<>> /\ last = "Read" /\ ~HasError(diags)) =>
          /\ \A a \in SchemaAttributes : ~IsNull(state[1][a]) /\ ~IsUnknown(state[1][a])
          /\ state[1] = FromUser(Lookup(ValueString(state[1].id)))
          /\ state = saved

\* an import and its Read have succeeded for a user whose e-mail address
\* the remote service normalised at creation
C16_Witness ==
    /\ saved # <<>>
    /\ last = "Read"
    /\ ~HasError(diags)
    /\ state[1].email = StringValue("x@y.com")
    /\ \E u \in remote : u.ID = ValueString(state[1].id) /\ u.HasAcceptedInvite

Handlers == { "ModifyPlan", "Create", "Read", "Update", "Delete" }

\* the operation an error detail names
OperationNamed(detail) ==
    CASE detail = "Unable to fetch state of user %s, got error: %s" -> "fetch"
      [] detail = "Unable to create user, got error: %s" -> "create"
      [] detail = "Unable to read user, got error: %s" -> "read"
      [] detail = "Unable to modify user, got error: %s" -> "modify"
      [] detail = "Unable to delete user, got error: %s" -> "delete"
      [] OTHER -> "none"

\* the operation each handler attempts
OperationAttempted ==
    [ ModifyPlan |-> "fetch", Create |-> "create", Read |-> "read",
      Update |-> "modify", Delete |-> "delete" ]

\* the values formatted into a diagnostic
Includes(d, v) == \E j \in 1..Len(d.args) : d.args[j] = v

HandlerErrors ==
    IF last \in Handlers
    THEN { i \in 1..Len(diags) : diags[i].severity = "error" }
    ELSE {}

\* C17 as stated: every error of ModifyPlan, Create, Read, Update and
\* Delete names the operation attempted, and the errors of Read, Update,
\* Delete and ModifyPlan, which know the id of the tracked resource,
\* include it.
C17_ErrorsIncludeId ==
    \A i \in HandlerErrors :
        /\ OperationNamed(diags[i].detail) = OperationAttempted[last]
        /\ last # "Create" => Includes(diags[i], ValueString(state[1].id))

\* C17, amended: every error of ModifyPlan, Create, Read, Update and Delete
\* names the operation attempted and carries the error of the remote call;
\* the fetch error of ModifyPlan includes the id of the tracked resource as
\* well, the errors of Create, Read, Update and Delete carry nothing else.
C17_ErrorsNameOperation ==
    \A i \in HandlerErrors :
        /\ OperationNamed(diags[i].detail) = OperationAttempted[last]
        /\ calls # <<>>
        /\ calls[Len(calls)].err # NoError
        /\ IF last = "ModifyPlan"
           THEN diags[i].args = << ValueString(state[1].id), calls[Len(calls)].err >>
           ELSE diags[i].args = << calls[Len(calls)].err >>

\* ModifyPlan has reported a fetch error for the tracked user
C17_Witness ==
    /\ last = "ModifyPlan"
    /\ HasError(diags)
    /\ state # <<>>
    /\ Includes(diags[1], ValueString(state[1].id))
    /\ Includes(diags[1], "not found")

\* Read has reported an error that does not include the tracked id
C17_WitnessRead ==
    /\ last = "Read"
    /\ HasError(diags)
    /\ ~Includes(diags[1], ValueString(state[1].id))

\* C18: when all_apps_visible or visible_apps is unknown at validation,
\* ValidateConfig skips the check and succeeds; all_apps_visible true with
\* an unknown visible_apps gives no validation error.
C18_UnknownSkipsCheck ==
    ( /\ Validated
      /\ \/ IsUnknown(config[1].all_apps_visible)
         \/ IsUnknown(config[1].visible_apps) ) =>
        ~HasError(diags)

\* the part of C18 that holds: an unknown all_apps_visible counts as false
\* and the configuration is accepted, whatever visible_apps is
C18_UnknownAllAppsVisibleAccepted ==
    (Validated /\ IsUnknown(config[1].all_apps_visible)) => diags = <<>>

\* C19: ModifyPlan contacts the remote service only when there is both a
\* prior state and a planned state: in the plan of a create (no prior
\* state) and in the plan of a destroy (no planned state) it makes no
\* GetUser call, flags nothing for replacement and adds no diagnostic.
C19_NoFetchForCreateOrDestroy ==
    (last = "ModifyPlan" /\ (state = <<>> \/ plan = <<>>)) =>
        /\ calls = <<>>
        /\ fetched = <<>>
        /\ modifyPlanReplace = {}
        /\ diags = <<>>

\* a destroy has been planned for a tracked user who has not accepted the
\* invite
C19_Witness ==
    /\ last = "ModifyPlan"
    /\ state # <<>>
    /\ plan = <<>>
    /\ planAction = "delete"
    /\ \E u \in remote : u.ID = ValueString(state[1].id) /\ ~u.HasAcceptedInvite

\* a create has been planned with no prior state
C19_WitnessCreate ==
    /\ last = "ModifyPlan"
    /\ state = <<>>
    /\ plan # <<>>
    /\ planAction = "create"

\* a step of ModifyPlan, Create, Read, Update or Delete
HandlerStep ==
    /\ last' \in Handlers
    /\ \/ pc' # pc
       \/ last' # last
       \/ calls' # calls
       \/ diags' # diags

\* the remote calls a handler step has issued; Read starts a run of its own
Issued ==
    IF last' = "Read" THEN calls'
    ELSE SubSeq(calls', Len(calls) + 1, Len(calls'))

\* the remote call of each handler
RemoteCallOf ==
    [ ModifyPlan |-> "GetUser", Create |-> "CreateUser", Read |-> "GetUser",
      Update |-> "ModifyUser", Delete |-> "DeleteUser" ]

\* C20: no retries: each run of ModifyPlan, Create, Read, Update or Delete
\* issues at most one remote call, its own; when that call fails the
\* handler reports the error and the run ends with no further remote call.
C20_NoRetries ==
    [][ HandlerStep =>
          /\ last' # "Read" =>
                /\ Len(calls') >= Len(calls)
                /\ SubSeq(calls', 1, Len(calls)) = calls
          /\ Len(Issued) <= 1
          /\ \A i \in 1..Len(Issued) :
                /\ Issued[i].op = RemoteCallOf[last']
                /\ Issued[i].err # NoError =>
                      /\ HasError(diags')
                      /\ diags'[Len(diags')].args[Len(diags'[Len(diags')].args)] = Issued[i].err
                      /\ pc' = "done" ]_vars

\* the CreateUser call of the Create half of a replacement has failed, as
\* the third and last call of the run
C20_Witness ==
    /\ last = "Create"
    /\ HasError(diags)
    /\ pc = "done"
    /\ Len(calls) = 3
    /\ calls[2].op = "DeleteUser"
    /\ calls[3].op = "CreateUser"
    /\ calls[3].err # NoError

\* C21: what ModifyPlan flags follows from the invite status of the fetched
\* user alone and not from the difference between prior and planned state:
\* in every plan with a prior and a planned state whose fetch succeeded,
\* a pending invite has every attribute flagged for replacement and the one
\* warning that the resource will be destroyed and recreated, also when the
\* planned state equals the prior state; an accepted invite has nothing
\* flagged and no warning, whatever has changed.
C21_ReplacementFollowsInviteOnly ==
    (Planned /\ state # <<>> /\ plan # <<>> /\ ~HasError(diags)) =>
        /\ fetched # <<>>
        /\ fetched[1].ID = ValueString(state[1].id)
        /\ IF fetched[1].HasAcceptedInvite
           THEN modifyPlanReplace = {} /\ diags = <<>>
           ELSE /\ \A a \in SchemaAttributes : a \in modifyPlanReplace
                /\ Len(diags) = 1
                /\ diags[1].severity = "warning"
                /\ diags[1].detail =
                      "Users cannot be modified until they have accepted their email invite to App Store Connect. This resource will be destroyed and recreated."

\* a plan whose planned state equals the prior state, for a user who has
\* not accepted the invite: every attribute is flagged and the warning is
\* there, and the engine has nothing to apply
C21_Witness ==
    /\ Planned
    /\ state # <<>>
    /\ plan = state
    /\ ObservedPending
    /\ modifyPlanReplace = SchemaAttributes
    /\ Len(diags) = 1
    /\ planAction = "noop"

\* a plan that changes the roles of a user who has accepted the invite:
\* nothing is flagged
C21_WitnessAccepted ==
    /\ Planned
    /\ state # <<>> /\ plan # <<>>
    /\ plan[1].roles # state[1].roles
    /\ ObservedAccepted
    /\ modifyPlanReplace = {}
    /\ planAction = "update"

====
